---- MODULE Spec2Model ----
(***************************************************************************)
(* mini-router: the segment trie of router/route.go, the pooled request    *)
(* context of router/context.go and the worker pool (worker pool file),    *)
(* as one state machine.                                                   *)
(*                                                                         *)
(* Strings are sequences of one-character strings, so that Trim, Split and *)
(* HasPrefix are computed as the code computes them.  Slices are Go slice  *)
(* headers (array, len, cap) over a heap of backing arrays, so that append *)
(* writes in place whenever the capacity allows it.                        *)
(***************************************************************************)
EXTENDS Integers, Sequences, FiniteSets, TLC

\* ------------------------------------------------------------------ bounds

\* Middleware functions one router is given through Use.
MaxMiddleware == 4
\* Routers: the root and its groups.
MaxRouters == 2
\* Requests that arrive in one run.
MaxRequests == 3
\* Dispatch threads (concurrent ServeHTTP calls).
NumDispatchers == 2
\* Worker units (CountOfWorkers is 1000 in NewRouter).
NumWorkers == 2
\* Capacity of the job queue (SizeOfQueue is 5000 in NewRouter).
QueueCap == 1
\* The clock stops here.
MaxTime == 1
\* The longest duration a handler gives WithTimeout.
MaxDelay == 2

\* ----------------------------------------------------------------- strings

Slash == "/"
Colon == ":"
\* The canonical wildcard token a parameter segment is stored under.
Star == <<"*">>

RECURSIVE TrimLeft(_)
TrimLeft(s) ==
    IF s # <<>> /\ Head(s) = Slash THEN TrimLeft(Tail(s)) ELSE s

RECURSIVE TrimRight(_)
TrimRight(s) ==
    IF s # <<>> /\ s[Len(s)] = Slash
    THEN TrimRight(SubSeq(s, 1, Len(s) - 1))
    ELSE s

\* strings.Trim(s, "/")
Trim(s) == TrimRight(TrimLeft(s))

RECURSIVE SplitAcc(_, _, _)
SplitAcc(s, cur, acc) ==
    IF s = <<>> THEN Append(acc, cur)
    ELSE IF Head(s) = Slash
         THEN SplitAcc(Tail(s), <<>>, Append(acc, cur))
         ELSE SplitAcc(Tail(s), Append(cur, Head(s)), acc)

\* strings.Split(s, "/"): never empty, Split("") is one empty segment.
Split(s) == SplitAcc(s, <<>>, <<>>)

\* strings.Split(strings.Trim(path, "/"), "/")
Parts(path) == Split(Trim(path))

\* strings.HasPrefix(part, ":")
IsParamSeg(part) == part # <<>> /\ Head(part) = Colon

\* part[1:] of a parameter segment
ParamNameOf(part) == IF IsParamSeg(part) THEN Tail(part) ELSE <<>>

\* The key a segment is stored under in children: "*" for a parameter.
Canon(part) == IF IsParamSeg(part) THEN Star ELSE part

CanonParts(parts) == [i \in 1..Len(parts) |-> Canon(parts[i])]

\* ------------------------------------------------------------------ slices

\* A nil func value, the content of a slot of a backing array beyond len.
Nil == 0

\* A nil slice.
NilSlice == [arr |-> 0, len |-> 0, cap |-> 0]

\* The elements of slice s in heap h.
ReadSlice(h, s) == [i \in 1..s.len |-> h[s.arr][i]]

\* The address of a new allocation.
NewArr(h) == CHOOSE i \in 1..(Cardinality(DOMAIN h) + 1) : i \notin DOMAIN h

\* The allocator's size classes for word-sized elements (8, 16, 24, 32, 48,
\* 64, 80, ... bytes).
RoundCap(n) == IF n <= 4 THEN n ELSE n + (n % 2)

\* The capacity append grows to (capacities below 256).
GrowCap(oldCap, newLen) ==
    RoundCap(IF newLen > 2 * oldCap THEN newLen ELSE 2 * oldCap)

Pad(seq, n) == seq \o [i \in 1..(n - Len(seq)) |-> Nil]

\* A new backing array holding exactly elems (a variadic argument list).
AllocSlice(h, elems) ==
    LET a == NewArr(h) IN
    [slice |-> [arr |-> a, len |-> Len(elems), cap |-> Len(elems)],
     heap  |-> (a :> elems) @@ h]

\* append(s, elems...): in place when the capacity allows it, otherwise a
\* copy into a new, larger array.
GoAppend(h, s, elems) ==
    LET n == s.len + Len(elems) IN
    IF Len(elems) = 0 THEN [slice |-> s, heap |-> h]
    ELSE IF n <= s.cap
    THEN [slice |-> [arr |-> s.arr, len |-> n, cap |-> s.cap],
          heap  |-> [h EXCEPT ![s.arr] =
                        [i \in 1..s.cap |->
                            IF i > s.len /\ i <= n THEN elems[i - s.len]
                            ELSE @[i]]]]
    ELSE LET a == NewArr(h)
             c == GrowCap(s.cap, n)
         IN  [slice |-> [arr |-> a, len |-> n, cap |-> c],
              heap  |-> (a :> Pad(ReadSlice(h, s) \o elems, c)) @@ h]

\* ------------------------------------------------------------------- state

VARIABLES
    heap,      \* backing arrays of every live []HandlerFunc: address -> slots
    routers,   \* the root Router (1) and its groups: middleware, prefix, parent
    nodes,     \* the trie: path of child keys from the root -> node
    routes,    \* history: what handle was last given for (method, node)
    fatal,     \* a registration panicked
    ctxs,      \* the APIContext objects sync.Pool has created
    pool,      \* per router: the contexts Put back and not taken again
    jobs,      \* WorkerPool.jobs: the buffered channel
    closed,    \* the channel is closed
    wk,        \* per worker goroutine: where it is and the job it holds
    disp,      \* per dispatch thread: where its ServeHTTP call is
    sd,        \* where the Shutdown call is
    nreq,      \* requests that have arrived
    resp,      \* per request in flight: the WriteHeader calls on its sink
    ran,       \* history, per request in flight: the handlers invoked
    fate,      \* history, per request in flight: what became of its job
    now        \* the clock

vars == <<heap, routers, nodes, routes, fatal, ctxs, pool, jobs,
          closed, wk, disp, sd, nreq, resp, ran, fate, now>>

regVars == <<routers, nodes, routes, fatal>>
runVars == <<ctxs, pool, jobs, closed, wk, disp, sd, nreq, resp, ran, fate, now>>

RouterIds   == 1..MaxRouters
Dispatchers == 1..NumDispatchers
Workers     == 1..NumWorkers

\* The empty map and the nil map of pathParams.
EmptyMap == [nil |-> FALSE, map |-> <<>>]
NilMap   == [nil |-> TRUE, map |-> <<>>]

\* context.Background(): never done, no deadline, no values.
Background == [owner |-> 0, done |-> FALSE, deadline |-> {}, bag |-> <<>>]

\* &APIContext{}: what sync.Pool's New returns.
ZeroCtx ==
    [w |-> 0, pathParams |-> NilMap, handlers |-> NilSlice,
     cctx |-> Background, cancel |-> 0, wg |-> 0]

IdleDisp ==
    [pc |-> "idle", router |-> 0, req |-> 0, method |-> "", path |-> <<>>,
     ctx |-> 0, handler |-> NilSlice, outcome |-> "", params |-> <<>>,
     panicked |-> FALSE]

NoJob == [ctx |-> 0, handlers |-> NilSlice, req |-> 0]

IdleWorker == [pc |-> "idle", job |-> NoJob, i |-> 0]

\* The backing arrays some slice of the program still refers to.
Roots ==
    {routers[r].middleware.arr : r \in DOMAIN routers}
    \cup {nodes[k].handler[m].arr : <<m, k>> \in
            {<<m2, k2>> \in {"GET", "POST"} \X DOMAIN nodes :
                m2 \in DOMAIN nodes[k2].handler}}
    \cup {ctxs[c].handlers.arr : c \in DOMAIN ctxs}
    \cup {jobs[i].handlers.arr : i \in DOMAIN jobs}
    \cup {wk[w].job.handlers.arr : w \in Workers}
    \cup {disp[d].handler.arr : d \in Dispatchers}

\* The garbage collector: arrays nothing refers to are gone.
Collect(h, live) == [a \in (DOMAIN h) \cap live |-> h[a]]

\* NewRouter: an empty trie under the root node, no middleware, an empty
\* context pool, NumWorkers workers started on an empty queue.
Init ==
    /\ heap = <<>>
    /\ routers = <<[middleware |-> NilSlice, prefix |-> <<>>, parent |-> 0]>>
    /\ nodes = (<<>> :> [path |-> <<>>, isParam |-> FALSE,
                         paramName |-> <<>>, handler |-> <<>>])
    /\ routes = <<>>
    /\ fatal = FALSE
    /\ ctxs = <<>>
    /\ pool = [r \in RouterIds |-> {}]
    /\ jobs = <<>>
    /\ closed = FALSE
    /\ wk = [w \in Workers |-> IdleWorker]
    /\ disp = [d \in Dispatchers |-> IdleDisp]
    /\ sd = "no"
    /\ nreq = 0
    /\ resp = <<>>
    /\ ran = <<>>
    /\ fate = <<>>
    /\ now = 0

\* Routes are registered before the server starts accepting traffic.
Setup == ~fatal /\ nreq = 0

\* ------------------------------------------------------------ registration

\* Router.Use: r.middleware = append(r.middleware, mw)
Use(r, mw) ==
    /\ Setup
    /\ r \in DOMAIN routers
    /\ routers[r].middleware.len < MaxMiddleware
    /\ LET res == GoAppend(heap, routers[r].middleware, <<mw>>) IN
       /\ routers' = [routers EXCEPT ![r].middleware = res.slice]
       /\ UNCHANGED <<nodes, routes, fatal>>
       /\ UNCHANGED runVars
       /\ heap' = Collect(res.heap, Roots')

\* Router.Group: a router over the same trie whose middleware is the
\* parent's slice header and whose prefix extends the parent's.
Group(r, prefix) ==
    /\ Setup
    /\ r \in DOMAIN routers
    /\ Len(routers) < MaxRouters
    /\ routers' = Append(routers,
                         [middleware |-> routers[r].middleware,
                          prefix |-> routers[r].prefix \o prefix,
                          parent |-> r])
    /\ UNCHANGED <<heap, nodes, routes, fatal>>
    /\ UNCHANGED runVars

\* The node handle creates for a segment it finds no child for.
NewNode(part) ==
    [path |-> Canon(part), isParam |-> IsParamSeg(part),
     paramName |-> ParamNameOf(part), handler |-> <<>>]

\* The trie after handle has walked parts from the root, creating the
\* missing nodes; the nodes that exist keep their fields.
WalkCreate(nds, parts) ==
    LET keys == CanonParts(parts)
        path(i) == SubSeq(keys, 1, i)
    IN  [k \in DOMAIN nds \cup {path(i) : i \in 1..Len(parts)} |->
            IF k \in DOMAIN nds THEN nds[k] ELSE NewNode(parts[Len(k)])]

\* A chain built with the route handlers ahead of the middleware.
ChainHandlersFirst(h, mw, hs) == AllocSlice(h, hs \o ReadSlice(h, mw))

\* handlers = append(r.middleware, handlers...) when there is middleware;
\* the variadic argument list itself otherwise.
Chain(h, mw, hs) ==
    IF mw.len > 0 THEN GoAppend(h, mw, hs) ELSE AllocSlice(h, hs)

\* A handle that walks and creates the nodes before it looks at the
\* number of handlers.
handleWalksFirst(r, method, path, hs) ==
    /\ Setup
    /\ r \in DOMAIN routers
    /\ LET fullPath == routers[r].prefix \o path
           parts == Parts(fullPath)
           key == CanonParts(parts)
           walked == WalkCreate(nodes, parts)
           res == Chain(heap, routers[r].middleware, hs)
       IN  IF Len(hs) = 0
           THEN /\ fatal' = TRUE
                /\ nodes' = walked
                /\ UNCHANGED <<heap, routers, routes>>
                /\ UNCHANGED runVars
           ELSE /\ nodes' = [walked EXCEPT ![key].handler =
                                (method :> res.slice) @@ @]
                /\ routes' = (<<method, key>> :>
                                [path |-> fullPath, router |-> r,
                                 chain |-> ReadSlice(heap, routers[r].middleware) \o hs])
                             @@ routes
                /\ UNCHANGED <<routers, fatal>>
                /\ UNCHANGED runVars
                /\ heap' = Collect(res.heap, Roots')

\* Router.handle (GET and POST call it with their method).
handle(r, method, path, hs) ==
    /\ Setup
    /\ r \in DOMAIN routers
    /\ IF Len(hs) = 0
       THEN \* panic: 0 handlers for path
            /\ fatal' = TRUE
            /\ UNCHANGED <<heap, routers, nodes, routes>>
            /\ UNCHANGED runVars
       ELSE LET fullPath == routers[r].prefix \o path
                parts == Parts(fullPath)
                key == CanonParts(parts)
                walked == WalkCreate(nodes, parts)
                res == Chain(heap, routers[r].middleware, hs)
            IN  /\ nodes' = [walked EXCEPT ![key].handler =
                                (method :> res.slice) @@ @]
                /\ routes' = (<<method, key>> :>
                                [path |-> fullPath, router |-> r,
                                 chain |-> ReadSlice(heap, routers[r].middleware) \o hs])
                             @@ routes
                /\ UNCHANGED <<routers, fatal>>
                /\ UNCHANGED runVars
                /\ heap' = Collect(res.heap, Roots')

\* Router.GET
GET(r, path, hs) == handle(r, "GET", path, hs)

\* Router.POST
POST(r, path, hs) == handle(r, "POST", path, hs)

\* ----------------------------------------------------------------- context

\* net/http status codes the router and the handlers write.
StatusOK == 200
StatusBadRequest == 400
StatusMethodNotAllowed == 405
StatusInternalServerError == 500
StatusGatewayTimeout == 504

\* What one handler invocation does with its context: one of the exported
\* APIContext methods, or nothing that changes it (logging, reading).
SuccessOp == [kind |-> "SuccessWithData", d |-> 0]
FailureOp == [kind |-> "WriteFailure", d |-> 0]
SetOp     == [kind |-> "Set", d |-> 0]
TimeoutOp(d) == [kind |-> "WithTimeout", d |-> d]

\* APIContext.withCancel: context.WithCancel(context.Background()), owned
\* by the request q being set up.
withCancel(cx, q) ==
    [cx EXCEPT !.cctx = [owner |-> q, done |-> FALSE, deadline |-> {},
                         bag |-> <<>>],
               !.cancel = q]

\* APIContext.setCtx
setCtx(cx, q) ==
    withCancel([cx EXCEPT !.w = q, !.handlers = NilSlice,
                          !.pathParams = EmptyMap, !.wg = 0], q)

\* A reset that forgets to drop the request's context and bindings.
resetKeepsValues(cx) ==
    [cx EXCEPT !.w = 0, !.handlers = NilSlice, !.wg = 0]

\* APIContext.reset
reset(cx) ==
    [cx EXCEPT !.w = 0, !.handlers = NilSlice, !.cctx = Background,
               !.wg = 0, !.pathParams = NilMap]

\* ctx.cancel(): cancels the context it was made for, and with it ctx.ctx
\* when that descends from it.
cancel(cx) ==
    IF cx.cancel # 0 /\ cx.cancel = cx.cctx.owner
    THEN [cx EXCEPT !.cctx.done = TRUE]
    ELSE cx

\* APIContext.Err() # nil, the same as Done() being closed.
Expired(cx, t) == cx.cctx.done \/ \E u \in cx.cctx.deadline : u <= t

\* APIContext.WithTimeout(d) at time t: the derived context keeps an
\* earlier deadline of its parent, and is done at once when d <= 0.
WithTimeout(cx, d, t) ==
    LET old == cx.cctx.deadline
        dl  == IF old = {} \/ \A u \in old : t + d < u THEN {t + d} ELSE old
    IN  [cx EXCEPT !.cctx.deadline = dl,
                   !.cctx.done = @ \/ d <= 0,
                   !.cancel = cx.cctx.owner]

\* APIContext.Set(key, value)
Set(cx, key, value) == [cx EXCEPT !.cctx.bag = (key :> value) @@ @]

\* w.WriteHeader(code) on the sink the context holds.
WriteHeader(rs, cx, by, code) ==
    IF cx.w \in DOMAIN rs
    THEN [rs EXCEPT ![cx.w] = Append(@, [by |-> by, code |-> code])]
    ELSE rs

\* A WriteFailure that writes and does not call ctx.cancel().
WriteFailureNoCancel(cx) == cx

\* APIContext.WriteFailure: the context after it.
WriteFailure(cx) == cancel(cx)

\* Handlers whose SuccessWithData cancels the context as WriteFailure does.
HandlerCtxSuccessCancels(cx, op, t) ==
    CASE op.kind = "WriteFailure" -> WriteFailure(cx)
      [] op.kind = "SuccessWithData" -> cancel(cx)
      [] op.kind = "WithTimeout" -> WithTimeout(cx, op.d, t)
      [] op.kind = "Set" -> Set(cx, "k", cx.w)
      [] OTHER -> cx

\* The context after a handler that does op at time t.
HandlerCtx(cx, op, t) ==
    CASE op.kind = "WriteFailure" -> WriteFailure(cx)
      [] op.kind = "WithTimeout" -> WithTimeout(cx, op.d, t)
      [] op.kind = "Set" -> Set(cx, "k", cx.w)
      [] OTHER -> cx

\* The response sink after a handler that does op.
HandlerResp(rs, cx, op) ==
    CASE op.kind = "WriteFailure" ->
            WriteHeader(rs, cx, "handler", StatusInternalServerError)
      [] op.kind = "SuccessWithData" ->
            WriteHeader(rs, cx, "handler", StatusOK)
      [] OTHER -> rs

\* ---------------------------------------------------------------- dispatch

\* History f with the entry of request q, if in flight, set to v.
Note(f, q, v) == IF q \in DOMAIN f THEN [f EXCEPT ![q] = v] ELSE f

\* f without x in its domain.
Without(f, x) == [y \in (DOMAIN f) \ {x} |-> f[y]]

\* A walk that takes the "*" child before looking for a literal child.
RECURSIVE WalkWildFirst(_, _, _, _)
WalkWildFirst(nds, parts, cur, params) ==
    IF parts = <<>> THEN [found |-> TRUE, node |-> cur, params |-> params]
    ELSE LET part == Head(parts)
             lit  == Append(cur, part)
             wild == Append(cur, Star)
         IN  IF wild \in DOMAIN nds
             THEN WalkWildFirst(nds, Tail(parts), wild,
                                (nds[wild].paramName :> part) @@ params)
             ELSE IF lit \in DOMAIN nds
             THEN WalkWildFirst(nds, Tail(parts), lit, params)
             ELSE [found |-> FALSE, node |-> cur, params |-> params]

\* The loop of ServeHTTP over the request's segments: a literal child
\* first, the "*" child otherwise, binding its paramName.
RECURSIVE Walk(_, _, _, _)
Walk(nds, parts, cur, params) ==
    IF parts = <<>> THEN [found |-> TRUE, node |-> cur, params |-> params]
    ELSE LET part == Head(parts)
             lit  == Append(cur, part)
             wild == Append(cur, Star)
         IN  IF lit \in DOMAIN nds
             THEN Walk(nds, Tail(parts), lit, params)
             ELSE IF wild \in DOMAIN nds
             THEN Walk(nds, Tail(parts), wild,
                       (nds[wild].paramName :> part) @@ params)
             ELSE [found |-> FALSE, node |-> cur, params |-> params]

Resolve(nds, path) == Walk(nds, Parts(path), <<>>, <<>>)

\* What r.pool.Get() may return: a pooled context or a new one.
Gettable(r) ==
    pool[r] \cup (IF Len(ctxs) < NumDispatchers THEN {Len(ctxs) + 1} ELSE {})

\* ctxs with context c taken out of the pool (created if new) and set to cx.
WithCtx(c, cx) ==
    IF c \in DOMAIN ctxs THEN [ctxs EXCEPT ![c] = cx] ELSE Append(ctxs, cx)

CtxOf(c) == IF c \in DOMAIN ctxs THEN ctxs[c] ELSE ZeroCtx

\* Router.ServeHTTP up to the channel send of Submit: Get and setCtx, the
\* walk, then either WriteFailure and return into the deferred wait, or
\* pathParams, setHandlers, setMiddleware and Submit's wg.Add(1).
ServeHTTP(d, r, method, path) ==
    /\ ~fatal
    /\ disp[d].pc = "idle"
    /\ nreq < MaxRequests
    /\ r \in DOMAIN routers
    /\ UNCHANGED <<jobs, closed, wk, sd, now>>
    /\ UNCHANGED regVars
    /\ ran' = (nreq + 1 :> <<>>) @@ ran
    /\ fate' = (nreq + 1 :> "none") @@ fate
    /\ \E c \in Gettable(r) :
        LET q   == nreq + 1
            cx  == setCtx(CtxOf(c), q)
            sink == (q :> <<>>) @@ resp
            res == Resolve(nodes, path)
            ok  == res.found /\ method \in DOMAIN nodes[res.node].handler
            code == IF res.found THEN StatusMethodNotAllowed
                    ELSE StatusBadRequest
            handler == nodes[res.node].handler[method]
            app == GoAppend(heap, routers[r].middleware,
                            ReadSlice(heap, handler))
        IN  /\ nreq' = q
            /\ pool' = [pool EXCEPT ![r] = @ \ {c}]
            /\ IF ~ok
               THEN /\ ctxs' = WithCtx(c, WriteFailure(cx))
                    /\ resp' = WriteHeader(sink, cx, "dispatcher", code)
                    /\ disp' = [disp EXCEPT ![d] =
                          [pc |-> "wait", router |-> r, req |-> q,
                           method |-> method, path |-> path, ctx |-> c,
                           handler |-> NilSlice,
                           outcome |-> IF res.found THEN "notallowed"
                                       ELSE "notfound",
                           params |-> <<>>, panicked |-> FALSE]]
                    /\ UNCHANGED heap
               ELSE /\ ctxs' = WithCtx(c,
                          [cx EXCEPT !.pathParams =
                                        [nil |-> FALSE, map |-> res.params],
                                     !.handlers = app.slice,
                                     !.wg = @ + 1])
                    /\ resp' = sink
                    /\ disp' = [disp EXCEPT ![d] =
                          [pc |-> "send", router |-> r, req |-> q,
                           method |-> method, path |-> path, ctx |-> c,
                           handler |-> handler, outcome |-> "ok",
                           params |-> res.params, panicked |-> FALSE]]
                    /\ heap' = Collect(app.heap, Roots')

\* A send that never blocks: the queue takes the job whatever it holds.
SubmitUnbounded(d) ==
    /\ disp[d].pc = "send"
    /\ IF closed
       THEN /\ disp' = [disp EXCEPT ![d].pc = "wait", ![d].panicked = TRUE,
                                    ![d].handler = NilSlice]
            /\ UNCHANGED <<jobs, fate>>
       ELSE /\ jobs' = Append(jobs, [ctx |-> disp[d].ctx,
                                     handlers |-> disp[d].handler,
                                     req |-> disp[d].req])
            /\ fate' = Note(fate, disp[d].req, "queued")
            /\ disp' = [disp EXCEPT ![d].pc = "wait",
                                    ![d].handler = NilSlice]
    /\ UNCHANGED <<ctxs, pool, closed, wk, sd, nreq, resp, ran, now>>
    /\ UNCHANGED regVars
    /\ heap' = Collect(heap, Roots')

\* The send of WorkerPool.Submit: wp.jobs <- Job{ctx, wrappedHandler}.  It
\* blocks while the buffer is full and panics on a closed channel, which
\* unwinds into ServeHTTP's deferred wait.
Submit(d) ==
    /\ disp[d].pc = "send"
    /\ IF closed
       THEN /\ disp' = [disp EXCEPT ![d].pc = "wait", ![d].panicked = TRUE,
                                    ![d].handler = NilSlice]
            /\ UNCHANGED <<jobs, fate>>
       ELSE /\ Len(jobs) < QueueCap
            /\ jobs' = Append(jobs, [ctx |-> disp[d].ctx,
                                     handlers |-> disp[d].handler,
                                     req |-> disp[d].req])
            /\ fate' = Note(fate, disp[d].req, "queued")
            /\ disp' = [disp EXCEPT ![d].pc = "wait",
                                    ![d].handler = NilSlice]
    /\ UNCHANGED <<ctxs, pool, closed, wk, sd, nreq, resp, ran, now>>
    /\ UNCHANGED regVars
    /\ heap' = Collect(heap, Roots')

\* A deferred function that resets and pools the context without waiting.
ReleaseNoWait(d) ==
    /\ disp[d].pc = "wait"
    /\ ctxs' = [ctxs EXCEPT ![disp[d].ctx] = reset(@)]
    /\ pool' = [pool EXCEPT ![disp[d].router] = @ \cup {disp[d].ctx}]
    /\ disp' = [disp EXCEPT ![d] = IdleDisp]
    /\ resp' = Without(resp, disp[d].req)
    /\ ran' = Without(ran, disp[d].req)
    /\ fate' = Without(fate, disp[d].req)
    /\ UNCHANGED <<jobs, closed, wk, sd, nreq, now>>
    /\ UNCHANGED regVars
    /\ heap' = Collect(heap, Roots')

\* The deferred function of ServeHTTP: ctx.wait() returns when the counter
\* is zero, then ctx.reset() and r.pool.Put(ctx).
Release(d) ==
    /\ disp[d].pc = "wait"
    /\ ctxs[disp[d].ctx].wg = 0
    /\ ctxs' = [ctxs EXCEPT ![disp[d].ctx] = reset(@)]
    /\ pool' = [pool EXCEPT ![disp[d].router] = @ \cup {disp[d].ctx}]
    /\ disp' = [disp EXCEPT ![d] = IdleDisp]
    /\ resp' = Without(resp, disp[d].req)
    /\ ran' = Without(ran, disp[d].req)
    /\ fate' = Without(fate, disp[d].req)
    /\ UNCHANGED <<jobs, closed, wk, sd, nreq, now>>
    /\ UNCHANGED regVars
    /\ heap' = Collect(heap, Roots')

\* ------------------------------------------------------------- worker pool

\* wg.Done() on the WaitGroup the context holds.
Done(cx) == [cx EXCEPT !.wg = @ - 1]

\* A receive that leaves the job in the queue for another worker as well.
TakeLeavesJob(w) ==
    /\ wk[w].pc = "idle"
    /\ jobs # <<>>
    /\ LET job == Head(jobs) IN
       /\ jobs' = jobs
       /\ IF job.ctx # 0 /\ ~Expired(ctxs[job.ctx], now)
          THEN /\ wk' = [wk EXCEPT ![w] = [pc |-> "run", job |-> job, i |-> 1]]
               /\ fate' = Note(fate, job.req, "running")
          ELSE /\ wk' = wk
               /\ fate' = Note(fate, job.req, "dropped")
    /\ UNCHANGED <<ctxs, pool, closed, disp, sd, nreq, resp, ran, now>>
    /\ UNCHANGED regVars
    /\ heap' = Collect(heap, Roots')

\* startWorker's loop body: receive a job; run its wrapped handler when the
\* context is there and Err() is nil, otherwise go on to the next job.
Take(w) ==
    /\ wk[w].pc = "idle"
    /\ jobs # <<>>
    /\ LET job == Head(jobs) IN
       /\ jobs' = Tail(jobs)
       /\ IF job.ctx # 0 /\ ~Expired(ctxs[job.ctx], now)
          THEN /\ wk' = [wk EXCEPT ![w] = [pc |-> "run", job |-> job, i |-> 1]]
               /\ fate' = Note(fate, job.req, "running")
          ELSE /\ wk' = wk
               /\ fate' = Note(fate, job.req, "dropped")
    /\ UNCHANGED <<ctxs, pool, closed, disp, sd, nreq, resp, ran, now>>
    /\ UNCHANGED regVars
    /\ heap' = Collect(heap, Roots')

\* The worker after the wrapped handler of its job returned.
Returned(w, last) ==
    IF last THEN [wk EXCEPT ![w] = IdleWorker] ELSE [wk EXCEPT ![w].i = @ + 1]

\* A runner that invokes the next handler without looking at Done().
RunHandlerUnchecked(w, op) ==
    /\ wk[w].pc = "run"
    /\ LET job == wk[w].job
           c == job.ctx
           cx == ctxs[c]
           h == heap[job.handlers.arr][wk[w].i]
           last == wk[w].i = job.handlers.len
           after == HandlerCtx(cx, op, now)
       IN  /\ ran' = IF job.req \in DOMAIN ran
                      THEN [ran EXCEPT ![job.req] = Append(@, h)]
                      ELSE ran
           /\ resp' = HandlerResp(resp, cx, op)
           /\ ctxs' = [ctxs EXCEPT ![c] = IF last THEN Done(after) ELSE after]
           /\ wk' = Returned(w, last)
           /\ fate' = IF last THEN Note(fate, job.req, "finished")
                      ELSE fate
    /\ UNCHANGED <<pool, jobs, closed, disp, sd, nreq, now>>
    /\ UNCHANGED regVars
    /\ heap' = Collect(heap, Roots')

\* One turn of the wrapped handler's loop with Done() not closed: the
\* default case invokes handlers[i]; after the last one the deferred
\* wg.Done() runs.
RunHandler(w, op) ==
    /\ wk[w].pc = "run"
    /\ LET job == wk[w].job
           c == job.ctx
           cx == ctxs[c]
           h == heap[job.handlers.arr][wk[w].i]
           last == wk[w].i = job.handlers.len
           after == HandlerCtx(cx, op, now)
       IN  /\ ~Expired(cx, now)
           /\ ran' = IF job.req \in DOMAIN ran
                      THEN [ran EXCEPT ![job.req] = Append(@, h)]
                      ELSE ran
           /\ resp' = HandlerResp(resp, cx, op)
           /\ ctxs' = [ctxs EXCEPT ![c] = IF last THEN Done(after) ELSE after]
           /\ wk' = Returned(w, last)
           /\ fate' = IF last THEN Note(fate, job.req, "finished")
                      ELSE fate
    /\ UNCHANGED <<pool, jobs, closed, disp, sd, nreq, now>>
    /\ UNCHANGED regVars
    /\ heap' = Collect(heap, Roots')

\* One turn of the wrapped handler's loop with Done() closed: the error is
\* logged, WriteFailure(504) is written and the runner returns into the
\* deferred wg.Done().
RunTimeout(w) ==
    /\ wk[w].pc = "run"
    /\ LET job == wk[w].job
           c == job.ctx
           cx == ctxs[c]
       IN  /\ Expired(cx, now)
           /\ resp' = WriteHeader(resp, cx, "runner", StatusGatewayTimeout)
           /\ ctxs' = [ctxs EXCEPT ![c] = Done(WriteFailure(cx))]
           /\ wk' = Returned(w, TRUE)
           /\ fate' = Note(fate, job.req, "finished")
    /\ UNCHANGED <<pool, jobs, closed, disp, sd, nreq, ran, now>>
    /\ UNCHANGED regVars
    /\ heap' = Collect(heap, Roots')

\* The range over wp.jobs ends when the channel is closed and drained; the
\* deferred wp.wg.Done() runs.
Exit(w) ==
    /\ wk[w].pc = "idle"
    /\ closed
    /\ jobs = <<>>
    /\ wk' = [wk EXCEPT ![w].pc = "exited"]
    /\ UNCHANGED <<heap, ctxs, pool, jobs, closed, disp, sd, nreq, resp, ran,
                   fate, now>>
    /\ UNCHANGED regVars

\* WorkerPool.Shutdown (Router.Shutdown calls it): close(wp.jobs).
Shutdown ==
    /\ ~fatal
    /\ sd = "no"
    /\ closed' = TRUE
    /\ sd' = "waiting"
    /\ UNCHANGED <<heap, ctxs, pool, jobs, wk, disp, nreq, resp, ran, fate, now>>
    /\ UNCHANGED regVars

\* WorkerPool.Shutdown: wp.wg.Wait() returns once every worker has exited.
ShutdownReturn ==
    /\ sd = "waiting"
    /\ \A w \in Workers : wk[w].pc = "exited"
    /\ sd' = "returned"
    /\ UNCHANGED <<heap, ctxs, pool, jobs, closed, wk, disp, nreq, resp, ran,
                   fate, now>>
    /\ UNCHANGED regVars

\* Time passes; it matters only while some context has a deadline ahead.
Tick ==
    /\ now < MaxTime
    /\ \E c \in DOMAIN ctxs : \E u \in ctxs[c].cctx.deadline : u > now
    /\ now' = now + 1
    /\ UNCHANGED <<heap, ctxs, pool, jobs, closed, wk, disp, sd, nreq, resp,
                   ran, fate>>
    /\ UNCHANGED regVars

\* A caller of the exported WorkerPool.Submit other than ServeHTTP: it sets
\* a context up, cancels it first (WithTimeout(0)) or not, and hands it to
\* Submit with its own handler list; then it waits like ServeHTTP does.
Direct(d, hs, cancelled) ==
    /\ ~fatal
    /\ disp[d].pc = "idle"
    /\ nreq < MaxRequests
    /\ Len(hs) > 0
    /\ UNCHANGED <<jobs, closed, wk, sd, now>>
    /\ UNCHANGED regVars
    /\ resp' = (nreq + 1 :> <<>>) @@ resp
    /\ ran' = (nreq + 1 :> <<>>) @@ ran
    /\ fate' = (nreq + 1 :> "none") @@ fate
    /\ \E c \in Gettable(1) :
        LET q   == nreq + 1
            cx  == setCtx(CtxOf(c), q)
            cy  == IF cancelled THEN WithTimeout(cx, 0, now) ELSE cx
            al  == AllocSlice(heap, hs)
        IN  /\ nreq' = q
            /\ pool' = [pool EXCEPT ![1] = @ \ {c}]
            /\ ctxs' = WithCtx(c, [cy EXCEPT !.wg = @ + 1])
            /\ disp' = [disp EXCEPT ![d] =
                  [pc |-> "send", router |-> 1, req |-> q,
                   method |-> "", path |-> <<>>, ctx |-> c,
                   handler |-> al.slice, outcome |-> "direct",
                   params |-> <<>>, panicked |-> FALSE]]
            /\ heap' = Collect(al.heap, Roots')

\* ---------------------------------------------------------- specifications

Methods == {"GET", "POST"}

\* Paths as the callers write them.
PathA    == <<"/", "a">>
PathB    == <<"/", "b">>
PathAB   == <<"/", "a", "/", "b">>
PathAX   == <<"/", "a", "/", ":", "x">>
PathAYC  == <<"/", "a", "/", ":", "y", "/", "c">>
PathX    == <<"/", ":", "x">>
PathAV   == <<"/", "a", "/", "v">>
PathAVC  == <<"/", "a", "/", "v", "/", "c">>
PathC    == <<"/", "c">>
PathV    == <<"/", "v">>
PrefixG  == <<"/", "g">>
PathGB   == PrefixG \o PathB

\* The whole system: a router with a parameter route, concurrent requests, the worker pool, handlers that use every context
\* method, the clock and Shutdown.
Next ==
    \/ GET(1, PathX, <<1, 2>>)
    \/ \E d \in Dispatchers, m \in Methods, p \in {PathV, PathAV} :
            ServeHTTP(d, 1, m, p)
    \/ \E d \in Dispatchers : Submit(d)
    \/ \E d \in Dispatchers : Release(d)
    \/ \E w \in Workers : Take(w)
    \/ \E w \in Workers, op \in {SuccessOp, FailureOp, SetOp,
                                 TimeoutOp(0), TimeoutOp(1)} :
            RunHandler(w, op)
    \/ \E w \in Workers : RunTimeout(w)
    \/ \E w \in Workers : Exit(w)
    \/ Shutdown
    \/ ShutdownReturn
    \/ Tick

Spec == Init /\ [][Next]_vars

\* Middleware and chains: Use and registrations on the root router and a
\* group of it, then requests served one at a time.
NextChain ==
    \/ Group(1, PrefixG)
    \/ Use(1, 1)
    \/ GET(1, PathA, <<7>>)
    \/ GET(2, PathB, <<8>>)
    \/ \E p \in {PathA, PathGB} : ServeHTTP(1, 1, "GET", p)
    \/ Submit(1)
    \/ Release(1)
    \/ Take(1)
    \/ RunHandler(1, SuccessOp)

SpecChain == Init /\ [][NextChain]_vars

\* The trie: registrations of literal and parameter paths under GET and
\* POST on the root, then requests served one at a time.
NextTrie ==
    \/ \E p \in {PathAB, PathAX, PathAYC}, hs \in {<<>>, <<7>>} :
            GET(1, p, hs)
    \/ \E p \in {PathAB, PathAX}, hs \in {<<8>>} : POST(1, p, hs)
    \/ \E m \in Methods, p \in {PathA, PathAB, PathAV, PathAVC, PathC} :
            ServeHTTP(1, 1, m, p)
    \/ Submit(1)
    \/ Release(1)
    \/ Take(1)
    \/ RunHandler(1, SuccessOp)

SpecTrie == Init /\ [][NextTrie]_vars

\* The worker pool under a direct caller of Submit, whose contexts may be
\* cancelled before their job is taken.
NextPool ==
    \/ \E d \in Dispatchers, hs \in {<<1>>, <<1, 2>>}, b \in BOOLEAN :
            Direct(d, hs, b)
    \/ \E d \in Dispatchers : Submit(d)
    \/ \E d \in Dispatchers : Release(d)
    \/ \E w \in Workers : Take(w)
    \/ \E w \in Workers, op \in {SuccessOp, FailureOp, TimeoutOp(0)} :
            RunHandler(w, op)
    \/ \E w \in Workers : RunTimeout(w)
    \/ \E w \in Workers : Exit(w)
    \/ Shutdown
    \/ ShutdownReturn

SpecPool == Init /\ [][NextPool]_vars

\* Chain order: two middleware registered one after the other, a route of
\* two handlers, concurrent requests run by the workers.
NextOrder ==
    \/ (routers[1].middleware.len < 2
            /\ Use(1, 3 + routers[1].middleware.len))
    \/ GET(1, PathX, <<1, 2>>)
    \/ \E d \in Dispatchers : ServeHTTP(d, 1, "GET", PathV)
    \/ \E d \in Dispatchers : Submit(d)
    \/ \E d \in Dispatchers : Release(d)
    \/ \E w \in Workers : Take(w)
    \/ \E w \in Workers, op \in {SuccessOp, FailureOp} : RunHandler(w, op)
    \/ \E w \in Workers : RunTimeout(w)

SpecOrder == Init /\ [][NextOrder]_vars

\* Deadlines: the handlers of a chain of two arm and re-arm the timeout
\* while the clock runs.
NextTimer ==
    \/ GET(1, PathX, <<1, 2>>)
    \/ ServeHTTP(1, 1, "GET", PathV)
    \/ Submit(1)
    \/ Release(1)
    \/ Take(1)
    \/ \E op \in {SuccessOp} \cup {TimeoutOp(d) : d \in 0..MaxDelay} :
            RunHandler(1, op)
    \/ RunTimeout(1)
    \/ Tick

SpecTimer == Init /\ [][NextTimer]_vars

\* The worker pool with its scheduling: a worker that can receive a job or
\* go on with the one it holds eventually does (goroutines are scheduled,
\* handlers return), and so does a dispatcher that can send or resume.
SpecPoolLive ==
    /\ SpecPool
    /\ \A w \in Workers :
          /\ WF_vars(Take(w))
          /\ WF_vars(\E op \in {SuccessOp, FailureOp, TimeoutOp(0)} :
                        RunHandler(w, op))
          /\ WF_vars(RunTimeout(w))
    /\ \A d \in Dispatchers : WF_vars(Submit(d)) /\ WF_vars(Release(d))

\* Groups: the root and a group of it, each given middleware of its own
\* and routes, in any order.
NextGroup ==
    \/ Group(1, PrefixG)
    \/ \E r \in RouterIds : Use(r, r)
    \/ GET(1, PathA, <<7>>)
    \/ POST(2, PathB, <<8>>)

SpecGroup == Init /\ [][NextGroup]_vars

\* ------------------------------------------------------------------ claims

\* The elements of the chain registered under method at the trie node key.
StoredChain(h, nds, method, key) == ReadSlice(h, nds[key].handler[method])

\* The requests whose ServeHTTP has resolved a chain and not yet returned.
Resolved == {d \in Dispatchers : disp[d].outcome = "ok"}

\* The (method, node) a resolved request arrived at.
RouteOf(d) == <<disp[d].method, Resolve(nodes, disp[d].path).node>>

\* C1: resolving the method and path of a registered route yields exactly
\* the chain stored at registration: the router's middleware as it stood
\* then, followed by the handlers given, whatever Use calls and
\* registrations of other routes came afterwards.
C1_ResolvedChainIsRegistered ==
    \A d \in Resolved :
        (disp[d].pc = "send" /\ RouteOf(d) \in DOMAIN routes
            /\ Parts(disp[d].path) = Parts(routes[RouteOf(d)].path))
        => ReadSlice(heap, disp[d].handler) = routes[RouteOf(d)].chain

\* C2: a Use call leaves the chain of every route registered before it as
\* it was: no middleware gained, no handler lost or replaced.
C2_UseLeavesChains ==
    [][(\E r \in RouterIds, mw \in 1..2 : Use(r, mw)) =>
          \A key \in DOMAIN routes :
              StoredChain(heap', nodes', key[1], key[2])
                  = StoredChain(heap, nodes, key[1], key[2])]_vars

\* parts is the registered path regParts with a value for each capture.
Instance(parts, regParts) ==
    /\ Len(parts) = Len(regParts)
    /\ \A i \in 1..Len(parts) :
          IsParamSeg(regParts[i]) \/ parts[i] = regParts[i]

\* Some route is registered on the request path, under any method.
PathRegistered(path) ==
    \E key \in DOMAIN routes : Instance(Parts(path), Parts(routes[key].path))

\* A route is registered on the request path under this method.
RouteRegistered(method, path) ==
    \E key \in DOMAIN routes :
        key[1] = method /\ Instance(Parts(path), Parts(routes[key].path))

\* C9: ServeHTTP answers not-found (400) exactly for the request paths no
\* route is registered on, and method-not-allowed (405) exactly for the
\* registered paths that have no chain for the request method.
C9_NotFoundVersusNotAllowed ==
    \A d \in Dispatchers :
        /\ disp[d].outcome = "notfound" => ~PathRegistered(disp[d].path)
        /\ disp[d].outcome = "notallowed" =>
              /\ PathRegistered(disp[d].path)
              /\ ~RouteRegistered(disp[d].method, disp[d].path)

\* The bindings of a request for the registered path regParts: each
\* capture's own name to the segment at its position.
OwnBindings(parts, regParts) ==
    LET at == {i \in 1..Len(regParts) : IsParamSeg(regParts[i])} IN
    [n \in {ParamNameOf(regParts[i]) : i \in at} |->
        parts[CHOOSE i \in at : ParamNameOf(regParts[i]) = n]]

\* C10: a request that substitutes a value for each capture of a
\* registered path gets each capture's own registered name bound to the
\* value at its position.
C10_CapturesBoundToOwnNames ==
    \A d \in Resolved :
        (disp[d].pc = "send" /\ RouteOf(d) \in DOMAIN routes
            /\ Instance(Parts(disp[d].path), Parts(routes[RouteOf(d)].path)))
        => ctxs[disp[d].ctx].pathParams.map
             = OwnBindings(Parts(disp[d].path), Parts(routes[RouteOf(d)].path))

\* The number of WriteHeader(code) calls in the response log.
Written(log, code) == Cardinality({i \in DOMAIN log : log[i].code = code})

\* The requests whose job is in the queue / held by a worker running it.
Queued == {jobs[i].req : i \in DOMAIN jobs}
Running == {wk[w].job.req : w \in {v \in Workers : wk[v].pc = "run"}}

\* C3: a job taken from the queue with its context already cancelled runs
\* no handler and gets exactly one gateway-timeout response.
C3_CancelledBeforeStart ==
    \A q \in DOMAIN fate :
        fate[q] = "dropped" =>
            /\ ran[q] = <<>>
            /\ Written(resp[q], StatusGatewayTimeout) = 1

\* C5: the queue never holds more than its capacity (a Submit on a full
\* queue has not returned), and every job whose Submit returned is in the
\* queue, running or finished.
C5_NoJobDropped ==
    /\ Len(jobs) <= QueueCap
    /\ \A q \in DOMAIN fate :
          fate[q] # "none" =>
              \/ q \in Queued
              \/ q \in Running
              \/ fate[q] = "finished"

\* C6: Shutdown cancels no context; a job still in the queue once Shutdown
\* has closed it (queued when Shutdown was called) is started by the worker
\* that takes it, and a job started is run to its end; Shutdown returns
\* only when every worker has exited and no job is left queued or running.
C6_ShutdownDrains ==
    [][/\ (sd = "no" /\ sd' = "waiting") => ctxs' = ctxs
       /\ (closed /\ jobs # <<>> /\ jobs' # jobs) =>
             \E w \in Workers :
                 wk'[w].pc = "run" /\ wk'[w].job = Head(jobs)
       /\ \A w \in Workers :
             (closed /\ wk[w].pc = "run" /\ wk'[w].pc # "run") =>
                 fate'[wk[w].job.req] = "finished"
       /\ sd' = "returned" =>
             /\ \A w \in Workers : wk'[w].pc = "exited"
             /\ Queued' = {} /\ Running' = {}]_vars

\* The jobs that are queued or running: context and request.
Outstanding ==
    {<<jobs[i].ctx, jobs[i].req>> : i \in DOMAIN jobs}
    \cup {<<wk[w].job.ctx, wk[w].job.req>> :
            w \in {v \in Workers : wk[v].pc = "run"}}

\* C4: while a job is queued or running its context is not in the pool and
\* still belongs to the job's request (not reset, not taken by another
\* request); no context is held by two requests; no context has two jobs
\* outstanding.
C4_ContextOwnedByOneRequest ==
    /\ \A j \in Outstanding :
          /\ \A r \in RouterIds : j[1] \notin pool[r]
          /\ ctxs[j[1]].w = j[2]
          /\ ctxs[j[1]].wg = 1
    /\ \A d1, d2 \in Dispatchers :
          (d1 # d2 /\ disp[d1].pc # "idle" /\ disp[d2].pc # "idle")
              => disp[d1].ctx # disp[d2].ctx
    /\ \A j1, j2 \in Outstanding : j1[1] = j2[1] => j1 = j2
    /\ Cardinality(Outstanding)
          = Len(jobs) + Cardinality({w \in Workers : wk[w].pc = "run"})

\* Two requests in flight at once, one job queued and one running, on a
\* context that an earlier request gave back.
C4_Witness ==
    /\ jobs # <<>>
    /\ \E w \in Workers : wk[w].pc = "run"
    /\ \A d \in Dispatchers : disp[d].pc = "wait"
    /\ nreq > NumDispatchers

\* C7: a runner that reaches a handler boundary with the cancellation
\* signal fired invokes no further handler: its step writes the
\* gateway-timeout response and ends the job.
C7_CancelledAtBoundaryStops ==
    [][\A w \in Workers :
          (/\ wk[w].pc = "run"
           /\ Expired(ctxs[wk[w].job.ctx], now)
           /\ wk'[w] # wk[w])
          => /\ ran' = ran
             /\ resp' = WriteHeader(resp, ctxs[wk[w].job.ctx], "runner",
                                    StatusGatewayTimeout)
             /\ wk'[w].pc = "idle"]_vars

\* The first handler of a chain of two ran, the runner then found the
\* signal fired and wrote the gateway-timeout response: the second
\* handler was not invoked.
C7_Witness ==
    \E q \in DOMAIN ran :
        /\ ran[q] = <<1>>
        /\ resp[q] = <<[by |-> "runner", code |-> StatusGatewayTimeout]>>
        /\ fate[q] = "finished"

\* C8: a context in the pool holds no parameter bindings, no values, no
\* deadline and no fired signal; what the handlers of a request read from
\* their context (bindings, values, deadline, Err) was made for that request.
C8_NoLeakAcrossRequests ==
    /\ \A r \in RouterIds : \A c \in pool[r] :
          /\ ctxs[c].pathParams = NilMap
          /\ ctxs[c].cctx = Background
          /\ ctxs[c].w = 0
    /\ \A w \in Workers :
          wk[w].pc = "run" =>
              LET cx == ctxs[wk[w].job.ctx]
                  q == wk[w].job.req
              IN  /\ cx.cctx.owner = q
                  /\ \A k \in DOMAIN cx.cctx.bag : cx.cctx.bag[k] = q
                  /\ \E d \in Dispatchers :
                        /\ disp[d].req = q
                        /\ cx.pathParams.map = disp[d].params

\* A handler of the third request runs on a context that two earlier
\* requests used, and has set a value of its own.
C8_Witness ==
    \E w \in Workers :
        /\ wk[w].pc = "run"
        /\ wk[w].i = 2
        /\ wk[w].job.req = MaxRequests
        /\ Len(ctxs) = 1
        /\ DOMAIN ctxs[wk[w].job.ctx].cctx.bag = {"k"}

\* C11: at every trie level a literal child equal to the request segment
\* wins over the wildcard child: a request whose segments spell a literal
\* route registered under its method resolves to that route's chain and
\* binds no parameter, whatever parameter routes were registered before or
\* after it.
C11_LiteralWinsOverWildcard ==
    \A d \in Resolved :
        LET parts == Parts(disp[d].path)
            key == <<disp[d].method, parts>>
        IN  (disp[d].pc = "send" /\ key \in DOMAIN routes
                /\ Parts(routes[key].path) = parts)
            => /\ disp[d].handler = nodes[parts].handler[disp[d].method]
               /\ ctxs[disp[d].ctx].pathParams.map = <<>>

\* GET /a/b is resolved while GET /a/:x is registered too: the "*" child
\* and the literal child b are both there for the second segment.
C11_Witness ==
    \E d \in Resolved :
        /\ disp[d].pc = "send"
        /\ disp[d].method = "GET"
        /\ disp[d].path = PathAB
        /\ <<"GET", Parts(PathAB)>> \in DOMAIN routes
        /\ <<"GET", CanonParts(Parts(PathAX))>> \in DOMAIN routes

\* The workers running the job of request q.
RunnersOf(q) == {w \in Workers : wk[w].pc = "run" /\ wk[w].job.req = q}

\* s is a prefix of t.
IsPrefix(s, t) == Len(s) <= Len(t) /\ s = SubSeq(t, 1, Len(s))

Failed == {q \in DOMAIN resp :
              \E i \in DOMAIN resp[q] :
                  resp[q][i] = [by |-> "handler",
                                code |-> StatusInternalServerError]}

\* The context a request in flight holds.
ContextOf(q) == ctxs[CHOOSE c \in DOMAIN ctxs : ctxs[c].w = q]

\* C13: once a handler has called WriteFailure the cancellation signal of
\* the request's context is fired, and no further handler of the chain is
\* invoked.
C13_WriteFailureStopsChain ==
    [][\A q \in Failed :
          /\ Expired(ContextOf(q), now)
          /\ q \in DOMAIN ran' => ran'[q] = ran[q]]_vars

\* The first handler of a chain of two called WriteFailure; the runner
\* stopped at the next boundary and the job ended with one handler run.
C13_Witness ==
    \E q \in Failed :
        /\ ran[q] = <<1>>
        /\ fate[q] = "finished"
        /\ resp[q][1].by = "handler"

\* C16: a handler's SuccessWithData leaves the cancellation state of the
\* context as it was: the signal is not fired by it, and when the handler
\* was not the last the runner goes on to the next one.
C16_SuccessDoesNotCancel ==
    [][\A w \in Workers :
          RunHandler(w, SuccessOp) =>
              LET c == wk[w].job.ctx IN
              /\ ctxs'[c].cctx = ctxs[c].cctx
              /\ ~Expired(ctxs'[c], now')
              /\ wk[w].i < wk[w].job.handlers.len =>
                    /\ wk'[w].pc = "run"
                    /\ wk'[w].i = wk[w].i + 1
                    /\ wk'[w].job = wk[w].job]_vars

\* Both handlers of a chain called SuccessWithData: the second ran after
\* the first had written its response.
C16_Witness ==
    \E q \in DOMAIN ran :
        /\ ran[q] = <<1, 2>>
        /\ resp[q] = <<[by |-> "handler", code |-> StatusOK],
                       [by |-> "handler", code |-> StatusOK]>>

\* C14: after a handler's WithTimeout(d) the cancellation signal fires
\* according to d only, whatever deadline the context had before: it is
\* fired at the times from now + d on (at once when d is zero) and at no
\* time before.
C14_RearmDiscardsDeadline ==
    [][\A w \in Workers, d \in 0..MaxDelay :
          RunHandler(w, TimeoutOp(d)) =>
              \A t \in now..(now + MaxDelay) :
                  Expired(ctxs'[wk[w].job.ctx], t) <=> (t >= now + d)]_vars

\* C15: a registration with zero handlers panics and leaves the trie as it
\* was: no node created, no chain stored or replaced; no stored chain is
\* ever empty.
C15_ZeroHandlersFatal ==
    [][/\ (\E r \in RouterIds, m \in Methods,
              p \in {PathAB, PathAX, PathAYC} : handle(r, m, p, <<>>))
          => fatal'
       /\ (~fatal /\ fatal') => (nodes' = nodes /\ heap' = heap)
       /\ \A k \in DOMAIN nodes' : \A m \in DOMAIN nodes'[k].handler :
             nodes'[k].handler[m].len > 0]_vars

\* A registration has panicked when only GET /a/b was registered: the
\* trie holds the root, a and a/b, and nothing of the failed registration.
C15_Witness ==
    /\ fatal
    /\ DOMAIN routes = {<<"GET", Parts(PathAB)>>}
    /\ Cardinality(DOMAIN nodes) = 3

\* C17: every Submit is followed by one decrement of the context's
\* counter, so a dispatcher waiting on the counter of a job it has sent
\* eventually resumes; the counter is never decremented twice.
C17_WaitEventuallyResumes ==
    /\ [](\A c \in DOMAIN ctxs : ctxs[c].wg \in {0, 1})
    /\ \A d \in Dispatchers :
          (disp[d].pc = "wait" /\ ~disp[d].panicked) ~> (disp[d].pc = "idle")

\* C18: once requests are being served no step changes the trie: every
\* registered chain and every router's middleware sequence reads the same
\* after the step as before it.
C18_ServingLeavesTrie ==
    [][nreq' > 0 =>
          /\ DOMAIN nodes' = DOMAIN nodes
          /\ \A key \in DOMAIN routes :
                StoredChain(heap', nodes', key[1], key[2])
                    = StoredChain(heap, nodes, key[1], key[2])
          /\ \A r \in DOMAIN routers :
                ReadSlice(heap', routers'[r].middleware)
                    = ReadSlice(heap, routers[r].middleware)]_vars

\* A step of router r: a Use on it or a registration through it.
StepOf(r) ==
    \/ \E mw \in RouterIds : Use(r, mw)
    \/ \E p \in {PathA, PathB}, hs \in {<<7>>, <<8>>} :
          GET(r, p, hs) \/ POST(r, p, hs)

\* C19: a Use or a registration on one router leaves the middleware
\* sequence of every other router (its parent, its groups) and the chain
\* of every route registered through them as they were.
C19_GroupsAreIndependent ==
    [][\A r \in DOMAIN routers :
          StepOf(r) =>
              /\ \A r2 \in DOMAIN routers \ {r} :
                    ReadSlice(heap', routers'[r2].middleware)
                        = ReadSlice(heap, routers[r2].middleware)
              /\ \A key \in DOMAIN routes :
                    routes[key].router # r =>
                        StoredChain(heap', nodes', key[1], key[2])
                            = StoredChain(heap, nodes, key[1], key[2])]_vars

\* The places the job of request q is at: queue positions and workers.
PlacesOf(q) ==
    {<<"queue", i>> : i \in {j \in DOMAIN jobs : jobs[j].req = q}}
    \cup {<<"worker", w>> : w \in RunnersOf(q)}

\* C20: a job put in the queue is taken once, by one worker: it is never at
\* two places (queue positions, workers), a job taken does not come back
\* to the queue, a job that ended is not taken again, and no handler of
\* its chain is invoked twice.
C20_JobConsumedOnce ==
    [][\A q \in DOMAIN fate :
          /\ Cardinality(PlacesOf(q)) <= 1
          /\ fate[q] \in {"running", "finished"} => q \notin Queued
          /\ fate[q] = "finished" => PlacesOf(q) = {}
          /\ q \in DOMAIN fate' =>
                /\ fate[q] = "running" => fate'[q] \in {"running", "finished"}
                /\ fate[q] = "finished" => (fate'[q] = "finished"
                                              /\ ran'[q] = ran[q])
          /\ \A i, j \in DOMAIN ran[q] : ran[q][i] = ran[q][j] => i = j]_vars

\* Two jobs were queued and two workers contended for them: each worker
\* is running one of them, at different positions of their chains.
C20_Witness ==
    \E w1, w2 \in Workers :
        /\ wk[w1].pc = "run" /\ wk[w2].pc = "run"
        /\ wk[w1].job.req # wk[w2].job.req
        /\ wk[w1].i = 1 /\ wk[w2].i = 2
        /\ jobs = <<>>

\* The requests some handler has written a response for.
Answered == {q \in DOMAIN resp :
                \E i \in DOMAIN resp[q] : resp[q][i].by = "handler"}

\* C21: a request that a handler has answered gets no further response
\* from the chain runner: after a handler's WriteFailure the runner stops
\* without writing the gateway-timeout status.
C21_OneResponsePerRequest ==
    \A q \in Answered :
        \A i \in DOMAIN resp[q] : resp[q][i].by # "runner"

\* C22: a dispatch whose Submit was refused because Shutdown had closed the
\* queue has run no handler and is not left with its context's counter
\* above zero, so that its deferred wait returns.
C22_RefusedSubmitReleases ==
    \A d \in Dispatchers :
        disp[d].panicked =>
            /\ ran[disp[d].req] = <<>>
            /\ ctxs[disp[d].ctx].wg = 0

\* C23: the queue never holds more than its capacity, and the chains being
\* executed are never more than the workers: every request whose chain is
\* under way is held by a worker of its own.
C23_QueueAndWorkersBounded ==
    /\ Len(jobs) <= QueueCap
    /\ Cardinality(Running) <= NumWorkers
    /\ \A q \in DOMAIN fate :
          fate[q] = "running" => Cardinality(RunnersOf(q)) = 1
    /\ \A w1, w2 \in Workers :
          (wk[w1].pc = "run" /\ wk[w2].pc = "run" /\ w1 # w2)
              => wk[w1].job.req # wk[w2].job.req

\* The queue is full and a dispatcher is blocked in its send.
C23_Witness ==
    /\ ~closed
    /\ Len(jobs) = QueueCap
    /\ \E d \in Dispatchers : disp[d].pc = "send"

====
